---- MODULE Spec2Model ----
(***************************************************************************)
(* GestureBridge: the App component's realtime media pipeline              *)
(* (connection lifecycle, capture and outbound dispatch, inbound playback  *)
(* scheduling, interruption, transcript merge) and the VideoPreview        *)
(* component's camera effect.                                              *)
(*                                                                         *)
(* Time units.  The playback clock (audioCtx.currentTime) is counted in    *)
(* quarters of a second, so the 0.5 s look-ahead limit is 2.  The wall     *)
(* clock (Date.now) is counted in units of 100 ms, so the 2000 ms merge    *)
(* window is 20.                                                           *)
(***************************************************************************)
EXTENDS Integers, Sequences, FiniteSets, TLC

\* ---------------------------------------------------------------- bounds
MaxAttempts == 2      \* connect attempts (calls of connectToGemini)
MaxUnits    == 2      \* inbound audio payloads received
MaxDur      == 3      \* longest decoded buffer, in clock units
MaxTime     == 2      \* last value of the playback clock
MaxChunks   == 2      \* outbound chunks produced per stream
MaxWall     == 27     \* last value of the wall clock
MaxDeltas   == 3      \* transcript deltas received
MaxToggles  == 2      \* clicks on the mute button
MaxIntr     == 1      \* interruption events received
MaxStarts   == 1      \* connect attempts in the specifications that bound them
MaxProbes   == 1      \* clicks on the Test Connection button

\* ------------------------------------------------------ program constants
DriftLimit  == 2      \* 0.5 s  (nextStartTimeRef.current > now + 0.5)
MergeWindow == 20     \* 2000 ms (getTime() - timestamp.getTime() < 2000)

Attempts == 1..MaxAttempts
Durations == 1..MaxDur

\* The gaps between two readings of the wall clock: 500 ms and 2100 ms, which
\* add up to the merge window itself (4 x 500 ms) and to either side of it.
WallSteps == {5, 21}

\* The transcript deltas.
Texts == {"a", "b"}

VARIABLES
  status,            \* useState<ConnectionStatus>
  error,             \* useState<string | null>: "none" is null
  isMicOn,           \* useState(true)
  mediaStream,       \* useState<MediaStream | null>: 0 is null, else the stream's id
  audioCtx,          \* audioContextRef.current # null
  nextStartTime,     \* nextStartTimeRef.current
  sources,           \* sourcesRef.current: ids of the nodes in the set
  frameInterval,     \* frameIntervalRef.current: 0 is null, else the attempt whose
                     \* sessionPromise the interval callback closed over
  sessionPromiseRef, \* sessionPromiseRef.current: 0 is null, else the attempt
  messages,          \* useState<Message[]>
  att,               \* per call of connectToGemini: its position, what its closures
                     \* captured, its microphone stream, processor and remote channel
  cam,               \* VideoPreview: acquisitions in flight, videoRef.current.srcObject
  units,             \* every inbound audio payload: its buffer source node and its history
  enc,               \* outbound chunks whose encode is in flight
  queue,             \* per attempt: encoded chunks waiting on sessionPromise.then
  sent,              \* what reached the remote channel, in order
  now,               \* audioCtx.currentTime
  wall,              \* Date.now()
  hist               \* history: counters and the last operation

vars == << status, error, isMicOn, mediaStream, audioCtx, nextStartTime, sources,
           frameInterval, sessionPromiseRef, messages, att, cam, units, enc, queue,
           sent, now, wall, hist >>

uiVars   == << mediaStream, frameInterval, sessionPromiseRef >>
playVars == << nextStartTime, sources, units >>
outVars  == << enc, queue, sent >>

\* One call of connectToGemini that has not happened yet.
NoAttempt == [ pc |-> "none", capMic |-> FALSE, capStream |-> 0, chan |-> "none",
               micLive |-> FALSE, proc |-> FALSE ]

Init ==
  /\ status = "DISCONNECTED"
  /\ error = "none"
  /\ isMicOn = TRUE
  /\ mediaStream = 0
  /\ audioCtx = FALSE
  /\ nextStartTime = 0
  /\ sources = {}
  /\ frameInterval = 0
  /\ sessionPromiseRef = 0
  /\ messages = << >>
  /\ att = [ a \in Attempts |-> NoAttempt ]
  /\ cam = [ inFlight |-> 0, srcObject |-> "null", leaked |-> 0 ]
  /\ units = << >>
  /\ enc = {}
  /\ queue = [ a \in Attempts |-> << >> ]
  /\ sent = << >>
  /\ now = 0
  /\ wall = 0
  /\ hist = [ op |-> "init", pre |-> "DISCONNECTED", idle |-> TRUE, u |-> 0,
              prev |-> 0, first |-> FALSE, fresh |-> FALSE, intrs |-> 0,
              nsched |-> 0, torn |-> {}, down |-> FALSE, toggles |-> 0,
              audio |-> 0, video |-> 0, deltas |-> 0, probes |-> 0, last |-> 0,
              gap |-> 0 ]

\* Whether a teardown would find nothing to tear down.
Stopped ==
  /\ frameInterval = 0
  /\ sources = {}
  /\ sessionPromiseRef = 0
  /\ mediaStream = 0

\* History: the operation that ran last, the status it found, and whether it
\* found everything already torn down.  u, prev and first describe a
\* scheduling step (the unit, nextStartTime before it, whether it is the
\* first since an interruption); fresh says that an interruption has been
\* handled and nothing scheduled since; last is the wall-clock time of the
\* latest transcript delta and gap the time between the latest two.
Hist(op) ==
  [ hist EXCEPT !.op = op, !.pre = status,
                !.idle = (Stopped /\ status = "DISCONNECTED"),
                !.u = 0, !.prev = 0, !.first = FALSE ]

\* ------------------------------------------------------------ VideoPreview
\* isActive, as App passes it to VideoPreview.
IsActive(s) == s \in {"CONNECTED", "CONNECTING"}

\* The effect on [isActive]: the previous effect's cleanup stops the tracks of
\* srcObject, then startVideo either begins an acquisition (active) or stops
\* the tracks and clears srcObject (inactive).  It runs on the render that
\* follows a change of status, so every operation that sets status applies it.
CamEffect(c, old, new) ==
  IF IsActive(old) = IsActive(new) THEN c
  ELSE IF IsActive(new)
       THEN [ c EXCEPT !.srcObject = IF @ = "live" THEN "stopped" ELSE @,
                       !.inFlight = @ + 1 ]
       ELSE [ c EXCEPT !.srcObject = "null" ]

\* getUserMedia({video}) resolves: srcObject = stream, whatever isActive is by
\* now; a stream that srcObject still held live is left running.
CamGranted ==
  /\ cam.inFlight > 0
  /\ cam' = [ cam EXCEPT !.inFlight = @ - 1,
                         !.leaked = IF cam.srcObject = "live" THEN @ + 1 ELSE @,
                         !.srcObject = "live" ]
  /\ hist' = Hist("camGranted")
  /\ UNCHANGED << status, error, isMicOn, audioCtx, messages, att, now, wall,
                  uiVars, playVars, outVars >>

\* getUserMedia({video}) rejects: console.error only.
CamDenied ==
  /\ cam.inFlight > 0
  /\ cam' = [ cam EXCEPT !.inFlight = @ - 1 ]
  /\ hist' = Hist("camDenied")
  /\ UNCHANGED << status, error, isMicOn, audioCtx, messages, att, now, wall,
                  uiVars, playVars, outVars >>

\* ---------------------------------------------------------------- playback
\* node.stop() on every node of the set S.
StopNodes(us, S) ==
  [ i \in DOMAIN us |->
      IF i \in S /\ us[i].st = "playing" THEN [ us[i] EXCEPT !.st = "stopped" ]
      ELSE us[i] ]

\* The drift rule without its look-ahead half.
SchedStartUnderrunOnly(next, t) ==
  IF next < t THEN t ELSE next

\* The scheduler's drift rule: where the next unit starts.
SchedStart(next, t) ==
  IF next < t \/ next > t + DriftLimit THEN t ELSE next

\* The playback state as one value: the nodes, the active set, nextStartTime.
PlayState == [ units |-> units, sources |-> sources, next |-> nextStartTime ]

\* Unit u, decoded, is scheduled at clock time t; ord, its place in the
\* order of scheduling, is history.
Schedule(p, u, t, ord) ==
  LET s == SchedStart(p.next, t) IN
  [ units   |-> [ p.units EXCEPT ![u] = [ @ EXCEPT !.st = "playing", !.start = s,
                                           !.ord = ord ] ],
    sources |-> p.sources \cup {u},
    next    |-> s + p.units[u].dur ]

\* An interruption that stops and clears but leaves the clock.
InterruptedKeepsClock(p) ==
  [ units |-> StopNodes(p.units, p.sources), sources |-> {}, next |-> p.next ]

\* Handle Interruption: stop every node of the set, clear it, reset the clock.
Interrupted(p) ==
  [ units |-> StopNodes(p.units, p.sources), sources |-> {}, next |-> 0 ]

\* A catch block that also rewinds the schedule.
DroppedResetsClock(p, u) ==
  [ p EXCEPT !.units[u].st = "dropped", !.next = 0 ]

\* The catch block of Handle Audio Output: console.error, nothing else; the
\* payload of unit u never becomes a node.
Dropped(p, u) ==
  [ p EXCEPT !.units[u].st = "dropped" ]

\* An interruption check that sits inside the try block, after the decode.
HandlesInterruptionIfDecoded(intr, decoded) == intr /\ decoded

\* Whether Handle Interruption runs for an event: the check follows the
\* try/catch of Handle Audio Output, whether or not the payload decoded.
HandlesInterruption(intr, decoded) == intr

\* History of an interruption: a unit scheduled before it is cut off from the
\* units scheduled after it, and a unit whose payload has arrived and whose
\* decode is still in flight is stale.
Marked(us) ==
  [ i \in DOMAIN us |->
      [ us[i] EXCEPT !.cut = (@ \/ us[i].ord # 0),
                     !.stale = (@ \/ us[i].st = "decoding") ] ]

\* ------------------------------------------------------------- teardown
\* track.stop() on the tracks of the stream the closure captured.
StopTracks(at, cap) ==
  IF cap # 0 THEN [ at EXCEPT ![cap].micLive = FALSE ] ELSE at

\* A teardown that leaves the video timer running.
stopEverythingKeepsTimer(cap, at) ==
  /\ frameInterval' = frameInterval
  /\ units' = StopNodes(units, sources)
  /\ sources' = {}
  /\ sessionPromiseRef' = 0
  /\ mediaStream' = IF cap # 0 THEN 0 ELSE mediaStream
  /\ att' = StopTracks(at, cap)

\* stopEverything as the closure that captured mediaStream = cap runs it;
\* at is att as the caller has already changed it.
stopEverything(cap, at) ==
  /\ frameInterval' = 0
  /\ units' = StopNodes(units, sources)
  /\ sources' = {}
  /\ sessionPromiseRef' = 0
  /\ mediaStream' = IF cap # 0 THEN 0 ELSE mediaStream
  /\ att' = StopTracks(at, cap)

\* History of a teardown: every attempt begun so far has been torn down, and
\* no start() has followed yet.
Torn(h) ==
  [ h EXCEPT !.torn = { a \in Attempts : att[a].pc # "none" }, !.down = TRUE ]

\* --------------------------------------------------------------- lifecycle
\* connectToGemini up to its first suspension: the call made while rendering
\* with the current isMicOn and mediaStream, which its closures keep.
connectToGemini(a) ==
  /\ att[a].pc = "none"
  /\ \A b \in Attempts : b < a => att[b].pc # "none"
  /\ status' = "CONNECTING"
  /\ error' = "none"
  /\ audioCtx' = TRUE
  /\ att' = [ att EXCEPT ![a] = [ pc |-> "awaitMic", capMic |-> isMicOn,
                                  capStream |-> mediaStream, chan |-> "none",
                                  micLive |-> FALSE, proc |-> FALSE ] ]
  /\ cam' = CamEffect(cam, status, "CONNECTING")
  /\ hist' = [ Hist("start") EXCEPT !.down = FALSE ]
  /\ UNCHANGED << isMicOn, messages, now, wall, uiVars, playVars, outVars >>

\* disconnect: stopEverything of the current render, then DISCONNECTED.
disconnect ==
  /\ stopEverything(mediaStream, att)
  /\ status' = "DISCONNECTED"
  /\ cam' = CamEffect(cam, status, "DISCONNECTED")
  /\ hist' = Torn(Hist("stop"))
  /\ UNCHANGED << error, isMicOn, audioCtx, nextStartTime, messages, now, wall,
                  outVars >>

\* A button that starts a connect attempt whatever the status is.
handleToggleStartsAnyway ==
  \E a \in Attempts : connectToGemini(a)

\* The start/stop button.
handleToggle ==
  IF status = "CONNECTED" \/ status = "CONNECTING"
  THEN disconnect
  ELSE \E a \in Attempts : connectToGemini(a)

\* getUserMedia({audio}) resolves: the rest of connectToGemini's try block.
MicGranted(a) ==
  /\ att[a].pc = "awaitMic"
  /\ mediaStream' = a
  /\ att' = [ att EXCEPT ![a].pc = "running", ![a].micLive = TRUE,
                         ![a].chan = "connecting", ![a].proc = TRUE ]
  /\ sessionPromiseRef' = a
  /\ frameInterval' = a
  /\ hist' = Hist("micGranted")
  /\ UNCHANGED << status, error, isMicOn, audioCtx, messages, cam, now, wall,
                  playVars, outVars >>

\* getUserMedia({audio}) rejects: connectToGemini's catch block.
MicDenied(a) ==
  /\ att[a].pc = "awaitMic"
  /\ error' = "device"
  /\ status' = "ERROR"
  /\ stopEverything(att[a].capStream, [ att EXCEPT ![a].pc = "failed" ])
  /\ cam' = CamEffect(cam, status, "ERROR")
  /\ hist' = Torn(Hist("micDenied"))
  /\ UNCHANGED << isMicOn, audioCtx, nextStartTime, messages, now, wall, outVars >>

\* What a send on attempt a's session does with a chunk.
SentEntry(c) ==
  [ k |-> c.k, a |-> c.a, n |-> c.n, gate |-> c.gate,
    torn |-> (c.a \in hist.torn), st |-> status ]

\* callbacks.onopen; sessionPromise resolves with it, so the sends that were
\* waiting on sessionPromise.then run, in the order they were registered.
onopen(a) ==
  /\ att[a].chan = "connecting"
  /\ att' = [ att EXCEPT ![a].chan = "open" ]
  /\ status' = "CONNECTED"
  /\ cam' = CamEffect(cam, status, "CONNECTED")
  /\ sent' = sent \o [ i \in 1..Len(queue[a]) |->
                         [ SentEntry(queue[a][i]) EXCEPT !.st = "CONNECTED" ] ]
  /\ queue' = [ queue EXCEPT ![a] = << >> ]
  /\ hist' = Hist("onopen")
  /\ UNCHANGED << error, isMicOn, audioCtx, messages, enc, now, wall, uiVars,
                  playVars >>

\* callbacks.onclose.
onclose(a) ==
  /\ att[a].chan \in {"open", "error"}
  /\ att' = [ att EXCEPT ![a].chan = "closed" ]
  /\ status' = "DISCONNECTED"
  /\ cam' = CamEffect(cam, status, "DISCONNECTED")
  /\ hist' = Hist("onclose")
  /\ UNCHANGED << error, isMicOn, audioCtx, messages, now, wall, uiVars, playVars,
                  outVars >>

\* callbacks.onerror: stopEverything is the one connectToGemini closed over.
onerror(a) ==
  /\ att[a].chan \in {"connecting", "open"}
  /\ error' = "connection"
  /\ status' = "ERROR"
  /\ stopEverything(att[a].capStream, [ att EXCEPT ![a].chan = "error" ])
  /\ cam' = CamEffect(cam, status, "ERROR")
  /\ queue' = [ queue EXCEPT ![a] = << >> ]
  /\ hist' = Torn(Hist("onerror"))
  /\ UNCHANGED << isMicOn, audioCtx, nextStartTime, messages, enc, sent, now, wall >>

\* The mute button.
ToggleMic ==
  /\ hist.toggles < MaxToggles
  /\ isMicOn' = ~isMicOn
  /\ hist' = [ Hist("toggleMic") EXCEPT !.toggles = @ + 1 ]
  /\ UNCHANGED << status, error, audioCtx, messages, att, cam, now, wall, uiVars,
                  playVars, outVars >>

\* -------------------------------------------------------------- transcript
\* A merge that replaces the last message's text by the delta.
MergeReplacesText(msgs, d, t) ==
  LET n == Len(msgs) IN
  IF n > 0 /\ msgs[n].role = "model" /\ t - msgs[n].timestamp < MergeWindow
  THEN [ msgs EXCEPT ![n].text = << d >> ]
  ELSE Append(msgs, [ id |-> t, role |-> "model", text |-> << d >>, timestamp |-> t ])

\* A merge that stamps the message with the time of its latest delta.
MergeMovesTimestamp(msgs, d, t) ==
  LET n == Len(msgs) IN
  IF n > 0 /\ msgs[n].role = "model" /\ t - msgs[n].timestamp < MergeWindow
  THEN [ msgs EXCEPT ![n].text = @ \o << d >>, ![n].timestamp = t ]
  ELSE Append(msgs, [ id |-> t, role |-> "model", text |-> << d >>, timestamp |-> t ])

\* A merge that looks at the last message's role and not at the clock.
MergeIgnoresClock(msgs, d, t) ==
  LET n == Len(msgs) IN
  IF n > 0 /\ msgs[n].role = "model"
  THEN [ msgs EXCEPT ![n].text = @ \o << d >> ]
  ELSE Append(msgs, [ id |-> t, role |-> "model", text |-> << d >>, timestamp |-> t ])

\* The setMessages updater for a delta d at wall-clock time t.  A text is the
\* sequence of the deltas it was built from, so that + is \o.
Merge(msgs, d, t) ==
  LET n == Len(msgs) IN
  IF n > 0 /\ msgs[n].role = "model" /\ t - msgs[n].timestamp < MergeWindow
  THEN [ msgs EXCEPT ![n].text = @ \o << d >> ]
  ELSE Append(msgs, [ id |-> t, role |-> "model", text |-> << d >>, timestamp |-> t ])

\* ---------------------------------------------------------- inbound events
\* A server event: text is "" when there is no transcript delta; audio is
\* "none", "ok", "badB64" (base64ToBytes throws) or "badPcm" (pcmToAudioBuffer
\* rejects); dur is the decoded buffer's duration.
Events(texts, audios, durs, intrs) ==
  { m \in [ text : texts, audio : audios, dur : durs, intr : intrs ] :
      m.text # "" \/ m.audio # "none" \/ m.intr }

\* The node of a payload in the shape units keeps.
NewUnit(m) ==
  [ st |-> "decoding", dur |-> m.dur, ok |-> (m.audio = "ok"), intr |-> m.intr,
    txt |-> (m.text # ""), start |-> 0, ord |-> 0, cut |-> FALSE, stale |-> FALSE ]

\* callbacks.onmessage up to its suspension at await pcmToAudioBuffer, or to
\* its end when it does not suspend.
onmessage(a, m) ==
  LET hasAudio == m.audio # "none"
      suspends == hasAudio /\ audioCtx /\ m.audio # "badB64"
      returns  == hasAudio /\ ~audioCtx
      pA == [ PlayState EXCEPT !.units = Append(units, NewUnit(m)) ]
      p0 == IF hasAudio /\ audioCtx
            THEN IF m.audio = "badB64" THEN Dropped(pA, Len(units) + 1) ELSE pA
            ELSE PlayState
      intrNow == HandlesInterruption(m.intr, m.audio # "badB64") /\ ~suspends
                                                                /\ ~returns
      p1 == IF intrNow THEN Interrupted(p0) ELSE p0
  IN
  /\ att[a].chan = "open"
  /\ m.text # "" => hist.deltas < MaxDeltas
  /\ hasAudio => Len(units) < MaxUnits
  /\ m.intr => hist.intrs < MaxIntr
  /\ messages' = IF m.text # "" THEN Merge(messages, m.text, wall) ELSE messages
  /\ units' = IF intrNow THEN Marked(p1.units) ELSE p1.units
  /\ sources' = p1.sources
  /\ nextStartTime' = p1.next
  /\ hist' = [ Hist(IF intrNow THEN "interrupt" ELSE "message") EXCEPT
                 !.deltas = IF m.text # "" THEN @ + 1 ELSE @,
                 !.last = IF m.text # "" THEN wall ELSE @,
                 !.gap = IF m.text # "" THEN wall - hist.last ELSE @,
                 !.intrs = IF m.intr THEN @ + 1 ELSE @,
                 !.fresh = (@ \/ intrNow) ]
  /\ UNCHANGED << status, error, isMicOn, audioCtx, att, cam, now, wall, uiVars,
                  outVars >>

\* await pcmToAudioBuffer(...) of unit u settles.  The decodes in flight
\* settle in any order and other tasks run meanwhile: a suspension point.
DecodeSettles(u) ==
  /\ u \in DOMAIN units
  /\ units[u].st = "decoding"

\* callbacks.onmessage from the await to its end: the decoded unit is
\* scheduled, or the rejection is caught; then the event's interruption.
DecodeResume(u) ==
  LET p1 == IF units[u].ok
            THEN Schedule(PlayState, u, now, hist.nsched + 1)
            ELSE Dropped(PlayState, u)
      intrNow == HandlesInterruption(units[u].intr, units[u].ok)
      p2 == IF intrNow THEN Interrupted(p1) ELSE p1
  IN
  /\ DecodeSettles(u)
  /\ units' = IF intrNow THEN Marked(p2.units) ELSE p2.units
  /\ sources' = p2.sources
  /\ nextStartTime' = p2.next
  /\ hist' = [ Hist(IF intrNow THEN "interrupt" ELSE "resume") EXCEPT
                 !.nsched = IF units[u].ok THEN @ + 1 ELSE @,
                 !.u = u,
                 !.prev = IF units[u].ok THEN nextStartTime ELSE 0,
                 !.first = (units[u].ok /\ hist.fresh),
                 !.fresh = IF intrNow THEN TRUE
                           ELSE IF units[u].ok THEN FALSE ELSE @ ]
  /\ UNCHANGED << status, error, isMicOn, audioCtx, messages, att, cam, now, wall,
                  uiVars, outVars >>

\* sourceNode.onended, on natural completion.
onended(u) ==
  /\ u \in DOMAIN units
  /\ units[u].st = "playing"
  /\ now >= units[u].start + units[u].dur
  /\ units' = [ units EXCEPT ![u].st = "ended" ]
  /\ sources' = sources \ {u}
  /\ hist' = Hist("onended")
  /\ UNCHANGED << status, error, isMicOn, audioCtx, nextStartTime, messages, att,
                  cam, now, wall, uiVars, outVars >>

\* The playback clock advances.
Tick ==
  /\ now < MaxTime
  /\ audioCtx
  /\ now' = now + 1
  /\ hist' = Hist("tick")
  /\ UNCHANGED << status, error, isMicOn, audioCtx, messages, att, cam, wall,
                  uiVars, playVars, outVars >>

\* The wall clock advances by d.
WallTick(d) ==
  /\ wall + d <= MaxWall
  /\ wall' = wall + d
  /\ hist' = Hist("wallTick")
  /\ UNCHANGED << status, error, isMicOn, audioCtx, messages, att, cam, now,
                  uiVars, playVars, outVars >>

\* ---------------------------------------------------------------- outbound
\* The isMicOn that processor.onaudioprocess of attempt a reads.
MicGate(a) == att[a].capMic

\* processor.onaudioprocess of attempt a: one captured block.
onaudioprocess(a) ==
  /\ att[a].proc
  /\ hist.audio < MaxChunks
  /\ enc' = IF MicGate(a)
            THEN enc \cup { [ k |-> "audio", a |-> a, n |-> hist.audio + 1,
                              gate |-> isMicOn ] }
            ELSE enc
  /\ hist' = [ Hist(IF MicGate(a) THEN "audioBlock" ELSE "audioGated") EXCEPT
                 !.audio = @ + 1 ]
  /\ UNCHANGED << status, error, isMicOn, audioCtx, messages, att, cam, queue, sent,
                  now, wall, uiVars, playVars >>

\* One tick of the 200 ms interval, up to its await of the encoded frame.
videoTick ==
  LET ready == cam.srcObject = "live" IN
  /\ frameInterval # 0
  /\ hist.video < MaxChunks
  /\ enc' = IF ready
            THEN enc \cup { [ k |-> "video", a |-> frameInterval,
                              n |-> hist.video + 1, gate |-> isMicOn ] }
            ELSE enc
  /\ hist' = [ Hist(IF ready THEN "videoFrame" ELSE "videoSkip") EXCEPT
                 !.video = IF ready THEN @ + 1 ELSE @ ]
  /\ UNCHANGED << status, error, isMicOn, audioCtx, messages, att, cam, queue, sent,
                  now, wall, uiVars, playVars >>

\* blobToBase64 of chunk c settles.  The encodes in flight settle in any
\* order: encode latency varies per chunk.
EncodeSettles(c) == c \in enc

\* blobToBase64 of chunk c resolves: sessionPromise.then(session => send).
\* The send runs now when the promise has resolved, waits when it is pending,
\* and reaches nothing on a channel that has closed or failed.
EncodeDone(c) ==
  /\ EncodeSettles(c)
  /\ enc' = enc \ {c}
  /\ queue' = IF att[c.a].chan = "connecting"
              THEN [ queue EXCEPT ![c.a] = Append(@, c) ] ELSE queue
  /\ sent' = IF att[c.a].chan = "open" THEN Append(sent, SentEntry(c)) ELSE sent
  /\ hist' = Hist(IF att[c.a].chan = "open" THEN "send" ELSE "encoded")
  /\ UNCHANGED << status, error, isMicOn, audioCtx, messages, att, cam, now, wall,
                  uiVars, playVars >>

\* ------------------------------------------------------------------- probe
\* The chunk a click on Test Connection hands to the session.
ProbeChunk ==
  [ k |-> "probe", a |-> sessionPromiseRef, n |-> hist.probes + 1, gate |-> isMicOn ]

\* A probe that also shows its text in the transcript.
handleTestConnectionLogs ==
  LET a == sessionPromiseRef IN
  /\ status = "CONNECTED"
  /\ hist.probes < MaxProbes
  /\ sent' = IF a # 0 /\ att[a].chan = "open"
             THEN Append(sent, SentEntry(ProbeChunk)) ELSE sent
  /\ queue' = IF a # 0 /\ att[a].chan = "connecting"
              THEN [ queue EXCEPT ![a] = Append(@, ProbeChunk) ] ELSE queue
  /\ messages' = Append(messages, [ id |-> wall, role |-> "user", text |-> << "a" >>,
                                    timestamp |-> wall ])
  /\ hist' = [ Hist("probe") EXCEPT !.probes = @ + 1 ]
  /\ UNCHANGED << status, error, isMicOn, audioCtx, att, cam, enc, now, wall,
                  uiVars, playVars >>

\* A click on Test Connection, a button rendered only while status is
\* CONNECTED: sessionPromiseRef.current.then(session => send).  The send runs
\* now when that promise has resolved, waits when it is pending, and reaches
\* nothing when the reference is null or the channel has closed or failed.
handleTestConnection ==
  LET a == sessionPromiseRef IN
  /\ status = "CONNECTED"
  /\ hist.probes < MaxProbes
  /\ sent' = IF a # 0 /\ att[a].chan = "open"
             THEN Append(sent, SentEntry(ProbeChunk)) ELSE sent
  /\ queue' = IF a # 0 /\ att[a].chan = "connecting"
              THEN [ queue EXCEPT ![a] = Append(@, ProbeChunk) ] ELSE queue
  /\ hist' = [ Hist("probe") EXCEPT !.probes = @ + 1 ]
  /\ UNCHANGED << status, error, isMicOn, audioCtx, messages, att, cam, enc, now,
                  wall, uiVars, playVars >>

\* ----------------------------------------------------------- specifications
\* The connect attempts begun so far.
Begun == Cardinality({ a \in Attempts : att[a].pc # "none" })

\* Playback: one session, audio payloads and interruptions, the playback clock.
NextPlay ==
  \/ connectToGemini(1)
  \/ MicGranted(1)
  \/ onopen(1)
  \/ \E m \in Events({""}, {"none", "ok"}, Durations, BOOLEAN) : onmessage(1, m)
  \/ \E u \in 1..MaxUnits : DecodeResume(u)
  \/ \E u \in 1..MaxUnits : onended(u)
  \/ Tick

SpecPlay == Init /\ [][NextPlay]_vars

\* Playback with every decode settling before the next event is delivered.
NextPlaySeq ==
  \/ connectToGemini(1)
  \/ MicGranted(1)
  \/ onopen(1)
  \/ /\ \A i \in DOMAIN units : units[i].st # "decoding"
     /\ \E m \in Events({""}, {"none", "ok"}, Durations, BOOLEAN) : onmessage(1, m)
  \/ \E u \in 1..MaxUnits : DecodeResume(u)
  \/ \E u \in 1..MaxUnits : onended(u)
  \/ Tick

SpecPlaySeq == Init /\ [][NextPlaySeq]_vars

\* Lifecycle: the start/stop button, both acquisitions, the remote channel's
\* events, and inbound audio so that a teardown finds units playing.
NextLife ==
  \/ handleToggle
  \/ \E a \in Attempts : MicGranted(a)
  \/ \E a \in Attempts : MicDenied(a)
  \/ \E a \in Attempts : onopen(a)
  \/ \E a \in Attempts : onclose(a)
  \/ \E a \in Attempts : onerror(a)
  \/ CamGranted
  \/ CamDenied
  \/ \E a \in Attempts : \E m \in Events({""}, {"ok"}, {1}, {FALSE}) : onmessage(a, m)
  \/ \E u \in 1..MaxUnits : DecodeResume(u)

SpecLife == Init /\ [][NextLife]_vars

\* Lifecycle with stop() also called directly, whatever the state.
NextStop ==
  \/ (IsActive(status) \/ Begun < MaxStarts) /\ handleToggle
  \/ disconnect
  \/ \E a \in Attempts : MicGranted(a)
  \/ \E a \in Attempts : MicDenied(a)
  \/ \E a \in Attempts : onopen(a)
  \/ \E a \in Attempts : onclose(a)
  \/ \E a \in Attempts : onerror(a)
  \/ CamGranted
  \/ CamDenied
  \/ \E a \in Attempts : \E m \in Events({""}, {"ok"}, {1}, {FALSE}) : onmessage(a, m)
  \/ \E u \in 1..MaxUnits : DecodeResume(u)

SpecStop == Init /\ [][NextStop]_vars

\* Outbound: capture callbacks, encodes and sends across starts, stops, remote
\* errors and the mute button.
NextOut ==
  \/ (IsActive(status) \/ Begun < MaxStarts) /\ handleToggle
  \/ \E a \in Attempts : MicGranted(a)
  \/ \E a \in Attempts : onopen(a)
  \/ \E a \in Attempts : onclose(a)
  \/ \E a \in Attempts : onerror(a)
  \/ CamGranted
  \/ ToggleMic
  \/ \E a \in Attempts : onaudioprocess(a)
  \/ videoTick
  \/ \E c \in enc : EncodeDone(c)

SpecOut == Init /\ [][NextOut]_vars

\* Transcript: one session, text deltas and the wall clock.
NextText ==
  \/ connectToGemini(1)
  \/ MicGranted(1)
  \/ onopen(1)
  \/ \E m \in Events(Texts, {"none"}, {1}, {FALSE}) : onmessage(1, m)
  \/ \E d \in WallSteps : WallTick(d)

SpecText == Init /\ [][NextText]_vars

\* Turns of the state machine: the start/stop button as often as there are
\* attempts, the microphone's grant or refusal, the camera's refusal, the
\* remote channel's events.
NextTurn ==
  \/ handleToggle
  \/ \E a \in Attempts : MicGranted(a)
  \/ \E a \in Attempts : MicDenied(a)
  \/ \E a \in Attempts : onopen(a)
  \/ \E a \in Attempts : onclose(a)
  \/ \E a \in Attempts : onerror(a)
  \/ CamDenied

SpecTurn == Init /\ [][NextTurn]_vars

\* The probe: the Test Connection button among starts, stops, the remote
\* channel's events and inbound events that fill the transcript and the
\* schedule.
NextProbe ==
  \/ (IsActive(status) \/ Begun < MaxStarts) /\ handleToggle
  \/ \E a \in Attempts : MicGranted(a)
  \/ \E a \in Attempts : onopen(a)
  \/ \E a \in Attempts : onclose(a)
  \/ \E a \in Attempts : onerror(a)
  \/ \E a \in Attempts : \E m \in Events({"a"}, {"ok"}, {2}, {FALSE}) : onmessage(a, m)
  \/ \E u \in 1..MaxUnits : DecodeResume(u)
  \/ handleTestConnection

SpecProbe == Init /\ [][NextProbe]_vars

\* The transcript across the session's life: deltas and interruptions among
\* starts, stops, remote closes and errors, with the wall clock stepping past
\* the merge window.
NextLog ==
  \/ (IsActive(status) \/ Begun < MaxStarts) /\ handleToggle
  \/ \E a \in Attempts : MicGranted(a)
  \/ \E a \in Attempts : onopen(a)
  \/ \E a \in Attempts : onclose(a)
  \/ \E a \in Attempts : onerror(a)
  \/ \E a \in Attempts : \E m \in Events(Texts, {"none"}, {1}, BOOLEAN) :
       onmessage(a, m)
  \/ \E d \in WallSteps : d > MergeWindow /\ WallTick(d)

SpecLog == Init /\ [][NextLog]_vars

\* Decode failures: audio payloads that decode or fail either way, with and
\* without an interruption, while the playback clock runs.
NextDecode ==
  \/ connectToGemini(1)
  \/ MicGranted(1)
  \/ onopen(1)
  \/ \E m \in Events({""}, {"none", "ok", "badB64", "badPcm"}, {2}, BOOLEAN) :
       onmessage(1, m)
  \/ \E u \in 1..MaxUnits : DecodeResume(u)
  \/ \E u \in 1..MaxUnits : onended(u)
  \/ Tick

SpecDecode == Init /\ [][NextDecode]_vars

\* Inbound events of every shape: a transcript delta, an audio payload that
\* decodes or fails either way, an interruption, and any of them together.
NextEvent ==
  \/ connectToGemini(1)
  \/ MicGranted(1)
  \/ onopen(1)
  \/ \E m \in Events({"", "a"}, {"none", "ok", "badB64", "badPcm"}, {2}, BOOLEAN) :
       onmessage(1, m)
  \/ \E u \in 1..MaxUnits : DecodeResume(u)

SpecEvent == Init /\ [][NextEvent]_vars

\* -------------------------------------------------------------- properties
Scheduled == { i \in DOMAIN units : units[i].ord # 0 }

\* C1: the units scheduled with no interruption in between occupy pairwise
\* non-overlapping intervals [start, start + dur), and their starts do not
\* decrease in the order of scheduling.  Stated of every two units scheduled
\* since the last interruption.
C1_NonOverlapping ==
  \A i, j \in Scheduled :
    (~units[i].cut /\ ~units[j].cut /\ units[i].ord < units[j].ord) =>
      /\ units[i].start + units[i].dur <= units[j].start
      /\ units[i].start <= units[j].start

\* C2: once an interruption has been handled, every unit whose payload had
\* arrived before it is no longer playing, and none of them is scheduled after
\* it, a unit whose decode was in flight at the interruption included.
C2_NoAudioFromBeforeInterruption ==
  \A i \in DOMAIN units :
    /\ units[i].cut => units[i].st # "playing"
    /\ units[i].stale => units[i].ord = 0

\* C3: right after an interruption is handled no unit is playing, the active
\* set is empty and nextStartTime is 0; and the first unit scheduled after an
\* interruption starts at the clock time of its scheduling.
C3_Interruption ==
  /\ hist.op = "interrupt" =>
       /\ sources = {}
       /\ nextStartTime = 0
       /\ \A i \in DOMAIN units : units[i].st # "playing"
  /\ hist.first => units[hist.u].start = now

\* C3's case: an interruption stopped a unit, time has passed, and the next
\* unit has just been scheduled.
C3_Witness ==
  /\ hist.op = "resume"
  /\ hist.first
  /\ now > 0
  /\ \E i \in DOMAIN units : units[i].st = "stopped" /\ units[i].start < now

\* C4: a unit scheduled at clock time now, with nextStartTime = prev before,
\* starts at now when prev < now or prev > now + 0.5 s and at prev otherwise;
\* when its event carries no interruption, nextStartTime is then its start
\* plus its duration and it is in the active set.
C4_DriftRule ==
  (hist.u # 0 /\ units[hist.u].ord # 0) =>
    LET u == units[hist.u] IN
    /\ u.start = IF hist.prev < now \/ hist.prev > now + DriftLimit
                 THEN now ELSE hist.prev
    /\ hist.op = "resume" => /\ nextStartTime = u.start + u.dur
                             /\ hist.u \in sources

\* C4's case: a unit has just been scheduled at the look-ahead boundary,
\* prev = now + 0.5 s, and keeps prev.
C4_Witness ==
  /\ hist.op = "resume"
  /\ hist.u # 0
  /\ hist.prev = now + DriftLimit
  /\ units[hist.u].start = hist.prev
  /\ now > 0

\* The attempt begun by the most recent start().
Latest == Begun

\* C5: status becomes CONNECTED only from CONNECTING, and only on the open
\* acknowledgment of the attempt begun by the most recent start(); so after
\* stop() it stays DISCONNECTED until the next start().
C5_ConnectedOnlyOnAck ==
  [][ (status' = "CONNECTED" /\ status # "CONNECTED") =>
        /\ status = "CONNECTING"
        /\ \A a \in Attempts :
             (att[a].chan = "connecting" /\ att'[a].chan = "open") => a = Latest
    ]_vars

\* C6: stop(), in whatever state it is called, leaves status DISCONNECTED, the
\* video timer cancelled, the active set empty, no unit playing and the session
\* reference cleared; called when all of that already holds it changes nothing.
C6_StopTearsDown ==
  [][ hist'.op = "stop" =>
        /\ status' = "DISCONNECTED"
        /\ frameInterval' = 0
        /\ sources' = {}
        /\ \A i \in DOMAIN units' : units'[i].st # "playing"
        /\ sessionPromiseRef' = 0
        /\ hist'.idle =>
             UNCHANGED << status, error, isMicOn, mediaStream, audioCtx,
                          nextStartTime, sources, frameInterval, sessionPromiseRef,
                          messages, att, cam, units, enc, queue, sent, now, wall >>
    ]_vars

\* C6's case: stop() has just been called with everything already torn down
\* by an earlier stop() that had stopped a playing unit.
C6_Witness ==
  /\ hist.op = "stop"
  /\ hist.idle
  /\ \E i \in DOMAIN units : units[i].st = "stopped"

\* C7: after a teardown, and until the next start(), no microphone stream is
\* live, no camera stream is held and no audio capture callback still runs,
\* also when an acquisition that was in flight completes meanwhile.
C7_DevicesReleased ==
  hist.down =>
    /\ \A a \in Attempts : ~att[a].micLive /\ ~att[a].proc
    /\ cam.srcObject # "live"
    /\ cam.leaked = 0

\* C8: no chunk reaches the remote channel on a session that a teardown has
\* already invalidated.
C8_NoSendAfterTeardown ==
  \A i \in 1..Len(sent) : ~sent[i].torn

\* C9: within a stream of one session the chunks reach the remote channel in
\* the order of their production.
C9_InProductionOrder ==
  \A i, j \in 1..Len(sent) :
    (i < j /\ sent[i].k = sent[j].k /\ sent[i].a = sent[j].a) =>
      sent[i].n < sent[j].n

\* C10: an audio block captured while the mute gate is on is discarded,
\* whenever the gate was turned on, and a block captured while the gate is off
\* is forwarded; so no audio chunk captured under the gate reaches the remote
\* channel.
C10_MuteGate ==
  /\ hist.op = "audioBlock" => isMicOn
  /\ hist.op = "audioGated" => ~isMicOn
  /\ \A i \in 1..Len(sent) : sent[i].k = "audio" => sent[i].gate

\* C11: every audio chunk and every video chunk that reaches the remote
\* channel reaches it while status is CONNECTED.
C11_SentWhileConnected ==
  \A i \in 1..Len(sent) :
    sent[i].k \in {"audio", "video"} => sent[i].st = "CONNECTED"

\* C12: a text delta d handled at wall-clock time t is appended to the last
\* message's text, leaving its id, role and timestamp and every other message
\* as they were, when that message has role model and t minus its timestamp
\* is less than 2000 ms; otherwise a new last message with role model, text d
\* and timestamp t is added.  So a delta 500 ms after the delta that began the
\* last message is merged into it, and one 2100 ms after it begins another.
C12_MergeRule ==
  [][ hist'.deltas = hist.deltas + 1 =>
        LET n == Len(messages) IN
        /\ \E d \in Texts :
             IF n > 0 /\ messages[n].role = "model"
                      /\ wall - messages[n].timestamp < MergeWindow
             THEN /\ Len(messages') = n
                  /\ \A i \in 1..(n - 1) : messages'[i] = messages[i]
                  /\ messages'[n].text = messages[n].text \o << d >>
                  /\ messages'[n].id = messages[n].id
                  /\ messages'[n].role = messages[n].role
                  /\ messages'[n].timestamp = messages[n].timestamp
             ELSE /\ Len(messages') = n + 1
                  /\ \A i \in 1..n : messages'[i] = messages[i]
                  /\ messages'[n + 1].role = "model"
                  /\ messages'[n + 1].text = << d >>
                  /\ messages'[n + 1].timestamp = wall
        /\ (n > 0 /\ Len(messages[n].text) = 1) =>
             /\ wall - messages[n].timestamp = 5 =>
                  /\ Len(messages') = n
                  /\ Len(messages'[n].text) = 2
                  /\ messages'[n].timestamp = messages[n].timestamp
             /\ wall - messages[n].timestamp = 21 => Len(messages') = n + 1
    ]_vars

\* C12's case: deltas at 0 ms, 2100 ms and 2600 ms: the second, 2100 ms after
\* the first, began a second message, and the third, 500 ms after the second,
\* has just been merged into it.
C12_Witness ==
  /\ hist.op = "message"
  /\ wall = 26
  /\ Len(messages) = 2
  /\ messages[1].timestamp = 0
  /\ Len(messages[1].text) = 1
  /\ messages[2].timestamp = 21
  /\ Len(messages[2].text) = 2
  /\ messages[2].text[1] # messages[2].text[2]

\* C13: at most one remote channel is open at any moment, and after a
\* teardown, until the next start(), none is.
C13_OneLiveSession ==
  /\ Cardinality({ a \in Attempts : att[a].chan = "open" }) <= 1
  /\ hist.down => \A a \in Attempts : att[a].chan # "open"

\* C14: a remote error leaves status ERROR with an error message set; status
\* then leaves ERROR only by a start(); and a remote close changes status
\* only when it is CONNECTED.
C14_ErrorIsTerminal ==
  [][ /\ hist'.op = "onerror" => (status' = "ERROR" /\ error' # "none")
      /\ (status = "ERROR" /\ status' # "ERROR") => hist'.op = "start"
      /\ (hist'.op = "onclose" /\ status' # status) => status = "CONNECTED"
    ]_vars

\* C15: when the acquisition of the microphone or of the camera fails, status
\* is ERROR and an error message is set.
C15_DeviceFailureIsError ==
  hist.op \in {"micDenied", "camDenied"} => (status = "ERROR" /\ error # "none")

\* The units whose payload fails to decode in this step.
JustDropped ==
  { u \in DOMAIN units' :
      /\ units'[u].st = "dropped"
      /\ u \in DOMAIN units => units[u].st = "decoding" }

\* C16: the step in which a payload fails to decode schedules nothing: the
\* failed unit gets no place in the schedule and is in no active set, every
\* other unit is as it was, status and error are as they were, and so are
\* nextStartTime and the active set (when the same event carries
\* interrupted=true they are what the interruption alone makes them: 0 and
\* empty).  A dropped unit stays dropped.  So the scheduling of every later
\* unit starts from the state it would have started from without the failure.
C16_DecodeFailureIsolated ==
  [][ /\ \A u \in JustDropped :
           /\ units'[u].ord = 0
           /\ u \notin sources'
           /\ status' = status
           /\ error' = error
           /\ hist'.nsched = hist.nsched
           /\ ~units'[u].intr =>
                /\ nextStartTime' = nextStartTime
                /\ sources' = sources
                /\ \A i \in DOMAIN units : i # u => units'[i] = units[i]
           /\ units'[u].intr =>
                /\ nextStartTime' = 0
                /\ sources' = {}
                /\ \A i \in DOMAIN units : i # u => units'[i].st # "playing"
      /\ \A u \in DOMAIN units : units[u].st = "dropped" => units'[u] = units[u]
    ]_vars

\* C16's case: a payload has just failed to decode, after its await, while an
\* earlier unit is playing and the schedule runs ahead of the clock.
C16_Witness ==
  /\ hist.op = "resume"
  /\ hist.u # 0
  /\ units[hist.u].st = "dropped"
  /\ sources # {}
  /\ nextStartTime > now
  /\ now > 0

\* C17: status enters CONNECTING, and a connect attempt begins, only in a
\* step of the user's start(), taken while status is DISCONNECTED or ERROR,
\* and that step begins exactly one attempt; no remote close, remote error,
\* device failure or timer tick does either.
C17_StartOnlyByUser ==
  [][ ((status' = "CONNECTING" /\ status # "CONNECTING") \/ Begun' # Begun) =>
        /\ hist'.op = "start"
        /\ status \in {"DISCONNECTED", "ERROR"}
        /\ status' = "CONNECTING"
        /\ Begun' = Begun + 1
    ]_vars

\* C17's case: after a remote error ended the first session the user has
\* just called start() again.
C17_Witness ==
  /\ hist.op = "start"
  /\ hist.pre = "ERROR"
  /\ \E a \in Attempts : att[a].chan = "error"
  /\ Begun = 2

\* The number of deltas a transcript holds.
RECURSIVE Held(_)
Held(msgs) ==
  IF msgs = << >> THEN 0
  ELSE Len(msgs[Len(msgs)].text) + Held(SubSeq(msgs, 1, Len(msgs) - 1))

\* What an interruption leaves: nothing playing, nothing in the active set,
\* nextStartTime 0.
InterruptionApplied ==
  /\ sources = {}
  /\ nextStartTime = 0
  /\ \A i \in DOMAIN units : units[i].st # "playing"

\* The units whose handler runs to its end in this step: the payload failed
\* before the await, or the await has settled.
JustSettled ==
  { u \in DOMAIN units' :
      /\ units'[u].st # "decoding"
      /\ u \in DOMAIN units => units[u].st = "decoding" }

\* C18: the step that receives an event with a transcript delta adds the
\* delta to the transcript, with or without an audio payload in the event;
\* the handler of an event whose payload decodes schedules it; and the
\* handler of an event with interrupted=true ends with the interruption
\* applied, whether the event has no payload, a payload that decodes or one
\* that fails.
C18_EveryHandlerRuns ==
  [][ /\ hist'.deltas = hist.deltas + 1 => Held(messages') = Held(messages) + 1
      /\ \A u \in DOMAIN units' :
           (u \notin DOMAIN units /\ units'[u].txt) =>
             /\ hist'.deltas = hist.deltas + 1
             /\ messages' # messages
      /\ \A u \in JustSettled :
           /\ units'[u].ok => units'[u].ord # 0
           /\ units'[u].intr => InterruptionApplied'
      /\ (hist'.intrs = hist.intrs + 1 /\ Len(units') = Len(units)) =>
           InterruptionApplied'
    ]_vars

\* C18's case: one event carried a delta, a payload that failed to decode
\* after its await, and interrupted=true; its handler has just ended, the
\* transcript has the delta and the unit that was playing is stopped.
C18_Witness ==
  /\ hist.op = "interrupt"
  /\ hist.u # 0
  /\ units[hist.u].txt
  /\ units[hist.u].intr
  /\ units[hist.u].st = "dropped"
  /\ Held(messages) = 1
  /\ \E i \in DOMAIN units : units[i].st = "stopped"

\* C19: a probe reaches the remote channel only while status is CONNECTED,
\* and a click on Test Connection leaves status, error, the playback clock,
\* nextStartTime, the active set, the units and the transcript as they were.
C19_ProbeHasNoEffect ==
  [][ /\ \A i \in 1..Len(sent') : sent'[i].k = "probe" => sent'[i].st = "CONNECTED"
      /\ hist'.op = "probe" =>
           UNCHANGED << status, error, now, nextStartTime, sources, units, messages >>
    ]_vars

\* C19's case: the probe has just been sent on an open channel, with a
\* transcript and a unit playing.
C19_Witness ==
  /\ hist.op = "probe"
  /\ Len(sent) > 0
  /\ sent[Len(sent)].k = "probe"
  /\ messages # << >>
  /\ sources # {}

\* C20: in every step the transcript keeps its length or grows, every message
\* but the last stays as it is, and the last either stays as it is or has
\* role model and gets text appended, its id, role and timestamp unchanged.
C20_TranscriptAppendOnly ==
  [][ LET n == Len(messages) IN
      /\ Len(messages') >= n
      /\ \A i \in 1..(n - 1) : messages'[i] = messages[i]
      /\ n > 0 =>
           \/ messages'[n] = messages[n]
           \/ /\ messages[n].role = "model"
              /\ messages'[n].id = messages[n].id
              /\ messages'[n].role = messages[n].role
              /\ messages'[n].timestamp = messages[n].timestamp
              /\ Len(messages'[n].text) > Len(messages[n].text)
              /\ SubSeq(messages'[n].text, 1, Len(messages[n].text)) = messages[n].text
    ]_vars

\* C20's case: after an interruption and a stop(), the session that stop()
\* left open has just delivered a delta that was merged into the second of
\* two messages.
C20_Witness ==
  /\ hist.op = "message"
  /\ hist.down
  /\ hist.intrs > 0
  /\ Len(messages) = 2
  /\ Len(messages[2].text) = 2

\* C21: right after stop(), a remote-error teardown or the teardown of a
\* failed connect, nextStartTime is 0 and the active set is empty.
C21_TeardownResetsClock ==
  hist.op \in {"stop", "onerror", "micDenied"} =>
    (nextStartTime = 0 /\ sources = {})

\* C22: of two audio payloads that have both been scheduled, with no
\* interruption handled since the first of them arrived, the one that arrived
\* first does not start later.  units keeps the payloads in arrival order.
C22_ArrivalOrder ==
  \A i, j \in Scheduled :
    (i < j /\ ~units[i].cut /\ ~units[i].stale /\ ~units[j].cut /\ ~units[j].stale
           /\ ~units[i].intr) =>
      units[i].start <= units[j].start

\* C23: a message's timestamp stays the time of its first fragment (its id);
\* any two consecutive messages have timestamps at least 2000 ms apart; no
\* two messages have the same id; and a delta handled 2000 ms or more after
\* the last message's first fragment begins a new message with the current
\* time as timestamp, however recently the previous delta arrived.
C23_WindowAnchored ==
  [][ /\ \A i \in 1..Len(messages') : messages'[i].timestamp = messages'[i].id
      /\ \A i \in 1..(Len(messages') - 1) :
           messages'[i + 1].timestamp - messages'[i].timestamp >= MergeWindow
      /\ \A i, j \in 1..Len(messages') :
           i # j => messages'[i].id # messages'[j].id
      /\ LET n == Len(messages) IN
         (hist'.deltas = hist.deltas + 1 /\ n > 0 /\ wall - messages[n].id >= MergeWindow) =>
           /\ Len(messages') = n + 1
           /\ messages'[n + 1].timestamp = wall
           /\ messages'[n] = messages[n]
    ]_vars

\* C23's case: a delta has just begun a second message exactly 2000 ms after
\* the first message's first fragment, 500 ms after the delta before it, which
\* had been merged into the first message.
C23_Witness ==
  /\ hist.op = "message"
  /\ hist.gap = 5
  /\ Len(messages) = 2
  /\ Len(messages[1].text) = 2
  /\ Len(messages[2].text) = 1
  /\ messages[2].timestamp = wall
  /\ messages[2].timestamp - messages[1].timestamp = MergeWindow

====
